---- MODULE Spec2Model ----
(***************************************************************************)
(* A model of isaac.py: the tree builder that walks a directory of image   *)
(* assets and emits a nested mapping of cleaned names to URLs.             *)
(*                                                                         *)
(* Strings are sequences of one-character strings, so that the string      *)
(* transforms (clean_segment, quote, rstrip, splitext, lower) are computed *)
(* character by character as the code and its library calls compute them.  *)
(***************************************************************************)
EXTENDS Naturals, Sequences, FiniteSets

VARIABLES
    pc,           \* position of main(): see the actions below
    fs,           \* the filesystem below the root: a sequence of nodes
    only_png,     \* args.only_png
    base_url,     \* args.base_url
    IMAGE_EXTS,   \* the module-level allow-list (line 12, rebound at line 114)
    root_path,    \* the resolved root: "" | "root" | "nodir"
    root_listing, \* the outcome of os.scandir on the root, once attempted
    entries,      \* main's sorted listing of the root (node ids)
    idx,          \* main's loop position in entries
    top,          \* main's dict under construction
    scanned,      \* directories on which os.scandir has been called (0 = root)
    stderr,       \* diagnostics printed to sys.stderr, in order
    stdout,       \* messages printed to sys.stdout, in order
    outfile,      \* the output file: <<>> while not created, else <<tree>>
    exit_status,  \* "running" | 0 | 1
    p_name,       \* SpecClean: the name given to clean_segment
    p_base,       \* SpecJoin: the base given to url_join
    p_segs,       \* SpecJoin: the segments given to url_join
    p_out         \* SpecClean, SpecJoin: the string returned

vars == <<pc, fs, only_png, base_url, IMAGE_EXTS, root_path, root_listing,
          entries, idx, top,
          scanned, stderr, stdout, outfile, exit_status,
          p_name, p_base, p_segs, p_out>>

(***************************************************************************)
(* Bounds of the model.                                                    *)
(***************************************************************************)
MaxNodes == 3
MaxNameLen == 4
MaxSegLen == 2
MaxSegs == 2
MaxBaseLen == 2

(***************************************************************************)
(* Characters.                                                             *)
(***************************************************************************)
Digits == {"0", "1", "2", "3", "4", "5", "6", "7", "8", "9"}

Uppers == <<"A", "B", "C", "D", "E", "F", "G", "H", "I", "J", "K", "L", "M",
            "N", "O", "P", "Q", "R", "S", "T", "U", "V", "W", "X", "Y", "Z">>

Lowers == <<"a", "b", "c", "d", "e", "f", "g", "h", "i", "j", "k", "l", "m",
            "n", "o", "p", "q", "r", "s", "t", "u", "v", "w", "x", "y", "z">>

\* The characters of the model in code-point order (str comparison order).
CodePoints == <<" ", "#", "%", "-", ".", "/",
                "0", "1", "2", "3", "4", "5", "6", "7", "8", "9", ":">>
              \o Uppers \o <<"_">> \o Lowers \o <<"~">>

IndexOf(c, seq) == CHOOSE i \in 1..Len(seq) : seq[i] = c

Ord(c) == IndexOf(c, CodePoints)

\* str.lower() on one character
LowerChar(c) == IF \E i \in 1..Len(Uppers) : Uppers[i] = c
                THEN Lowers[IndexOf(c, Uppers)] ELSE c

\* str.lower()
RECURSIVE Lower(_)
Lower(s) == IF s = <<>> THEN <<>> ELSE <<LowerChar(s[1])>> \o Lower(Tail(s))

\* s < t for two str values: lexicographic by code point
RECURSIVE StrLess(_, _)
StrLess(s, t) ==
    IF t = <<>> THEN FALSE
    ELSE IF s = <<>> THEN TRUE
    ELSE IF s[1] # t[1] THEN Ord(s[1]) < Ord(t[1])
    ELSE StrLess(Tail(s), Tail(t))

\* s.startswith(".")
StartsWithDot(s) == Len(s) > 0 /\ s[1] = "."

\* base.rstrip("/")
RECURSIVE RStripSlash(_)
RStripSlash(s) ==
    IF Len(s) > 0 /\ s[Len(s)] = "/" THEN RStripSlash(SubSeq(s, 1, Len(s) - 1))
    ELSE s

(***************************************************************************)
(* clean_segment: NUM_PREFIX = ^\d+_? is matched greedily at position 0    *)
(* and the match is replaced by the empty string.                          *)
(***************************************************************************)
\* length of the match of \d+ at the start of s (0: no match)
RECURSIVE DigitRun(_)
DigitRun(s) == IF Len(s) > 0 /\ s[1] \in Digits THEN 1 + DigitRun(Tail(s)) ELSE 0

\* length of the match of NUM_PREFIX at the start of s (0: no match)
NumPrefixLenOneDigit(s) ==
    IF Len(s) > 0 /\ s[1] \in Digits
    THEN IF Len(s) > 1 /\ s[2] = "_" THEN 2 ELSE 1
    ELSE 0

NumPrefixLen(s) ==
    LET d == DigitRun(s)
    IN  IF d = 0 THEN 0
        ELSE IF Len(s) > d /\ s[d + 1] = "_" THEN d + 1 ELSE d

clean_segment(name) == SubSeq(name, NumPrefixLen(name) + 1, Len(name))

(***************************************************************************)
(* url_join and urllib.parse.quote(seg, safe="").                          *)
(***************************************************************************)
\* quote's always-safe set: letters, digits and "_.-~"
Unreserved == Digits \cup {Uppers[i] : i \in 1..Len(Uppers)}
                     \cup {Lowers[i] : i \in 1..Len(Lowers)}
                     \cup {"_", ".", "-", "~"}

\* the %XX escape of a reserved character of the model
Escape(c) ==
    CASE c = " " -> <<"%", "2", "0">>
      [] c = "#" -> <<"%", "2", "3">>
      [] c = "%" -> <<"%", "2", "5">>
      [] c = "/" -> <<"%", "2", "F">>
      [] c = ":" -> <<"%", "3", "A">>

QuoteCharSlashSafe(c) == IF c \in Unreserved \cup {"/"} THEN <<c>> ELSE Escape(c)

QuoteChar(c) == IF c \in Unreserved THEN <<c>> ELSE Escape(c)

RECURSIVE quote(_)
quote(seg) == IF seg = <<>> THEN <<>> ELSE QuoteChar(seg[1]) \o quote(Tail(seg))

\* encoded = [quote(str(seg), safe="") for seg in segments if str(seg)]
RECURSIVE Encoded(_)
Encoded(segments) ==
    IF segments = <<>> THEN <<>>
    ELSE IF segments[1] = <<>> THEN Encoded(Tail(segments))
    ELSE <<quote(segments[1])>> \o Encoded(Tail(segments))

\* "/".join(encoded)
RECURSIVE JoinSlash(_)
JoinSlash(parts) ==
    IF parts = <<>> THEN <<>>
    ELSE IF Len(parts) = 1 THEN parts[1]
    ELSE parts[1] \o <<"/">> \o JoinSlash(Tail(parts))

url_join(base, segments) ==
    LET encoded == Encoded(segments)
    IN  IF encoded = <<>> THEN RStripSlash(base)
        ELSE RStripSlash(base) \o <<"/">> \o JoinSlash(encoded)

(***************************************************************************)
(* os.path.splitext(name) for a bare file name: the extension starts at    *)
(* the last dot, unless only dots precede that dot.                        *)
(***************************************************************************)
RECURSIVE LastDot(_)
LastDot(s) == IF s = <<>> THEN 0
              ELSE IF s[Len(s)] = "." THEN Len(s)
              ELSE LastDot(SubSeq(s, 1, Len(s) - 1))

SplitAt(s) ==
    LET dotIndex == LastDot(s)
    IN  IF dotIndex > 0 /\ \E i \in 1..(dotIndex - 1) : s[i] # "."
        THEN dotIndex ELSE Len(s) + 1

\* os.path.splitext(name)[0]
SplitextRoot(s) == SubSeq(s, 1, SplitAt(s) - 1)

\* os.path.splitext(name)[1]
SplitextExt(s) == SubSeq(s, SplitAt(s), Len(s))

(***************************************************************************)
(* Configuration defaults.                                                 *)
(***************************************************************************)
DefaultImageExts == { <<".", "p", "n", "g">>, <<".", "j", "p", "g">>,
                      <<".", "j", "p", "e", "g">>, <<".", "g", "i", "f">>,
                      <<".", "w", "e", "b", "p">> }

PngOnly == { <<".", "p", "n", "g">> }

\* values of --base-url: without and with trailing slashes
BaseUrls == { <<"h", ":", "/", "/", "x", "/", "I">>,
              <<"h", ":", "/", "/", "x", "/", "I", "/", "/">> }

(***************************************************************************)
(* The filesystem below the root, as os.scandir, DirEntry.is_dir and       *)
(* DirEntry.is_file report it.  A node is [parent, cat, listing]: parent   *)
(* is a node id (0 = the root), cat indexes Catalog (name and kind), and   *)
(* listing is the outcome of os.scandir on the node when the traversal     *)
(* reaches it: "ok", or the exception it raises.                           *)
(***************************************************************************)
Catalog == <<
    [name |-> <<"3", "_", "M">>,                    kind |-> "dir"],
    [name |-> <<"M">>,                              kind |-> "dir"],
    [name |-> <<"1", "2">>,                         kind |-> "dir"],
    [name |-> <<".", "g">>,                         kind |-> "dir"],
    [name |-> <<"M", ".", "p", "n", "g">>,          kind |-> "file"],
    [name |-> <<"M", ".", "g", "i", "f">>,          kind |-> "file"],
    [name |-> <<"b", " ", "c", ".", "J", "P", "G">>, kind |-> "file"],
    [name |-> <<"n", ".", "t", "x", "t">>,          kind |-> "file"],
    [name |-> <<".", "h", ".", "p", "n", "g">>,     kind |-> "file"],
    [name |-> <<"s", ".", "p", "n", "g">>,          kind |-> "other"] >>

\* the outcomes of os.scandir: the listing, or the exception raised (the
\* directory is gone, is unreadable, is no longer a directory)
Listings == {"ok", "FileNotFoundError", "PermissionError", "NotADirectoryError"}

\* A filesystem lists its nodes in breadth-first order, siblings in catalog
\* order, so that each tree is written in one way.  Nodes lie below
\* directories that can be listed (what a failing directory holds is never
\* seen); a hidden directory is given the listing "ok", so that whatever
\* lists it finds its entries.

\* the directories of f that may take the next node
NextParents(f) ==
    { p \in (IF f = <<>> THEN 0 ELSE f[Len(f)].parent)..Len(f) :
        p > 0 => Catalog[f[p].cat].kind = "dir" /\ f[p].listing = "ok" }

\* the catalog entries the next node may be, in directory p
NextCats(f, p) ==
    IF f # <<>> /\ f[Len(f)].parent = p
    THEN (f[Len(f)].cat + 1)..Len(Catalog) ELSE 1..Len(Catalog)

\* the outcomes of listing an entry
ListingsOf(c) ==
    IF Catalog[c].kind = "dir" /\ ~StartsWithDot(Catalog[c].name)
    THEN Listings ELSE {"ok"}

NodeRecs == [parent : 0..MaxNodes, cat : 1..Len(Catalog), listing : Listings]

Fits(f, x) ==
    /\ x.parent \in NextParents(f)
    /\ x.cat \in NextCats(f, x.parent)
    /\ x.listing \in ListingsOf(x.cat)

\* the filesystems of exactly n nodes
RECURSIVE FileSystemsOf(_)
FileSystemsOf(n) ==
    IF n = 0 THEN { <<>> }
    ELSE { Append(q[1], q[2]) :
             q \in { r \in FileSystemsOf(n - 1) \X NodeRecs : Fits(r[1], r[2]) } }

NodeName(e) == Catalog[fs[e].cat].name

\* DirEntry.is_dir()
is_dir(e) == Catalog[fs[e].cat].kind = "dir"

\* DirEntry.is_file()
is_file(e) == Catalog[fs[e].cat].kind = "file"

\* list(os.scandir(d)): the entries of directory d, in the order the
\* operating system yields them
ScanDir(d) == SelectSeq([i \in 1..Len(fs) |-> i], LAMBDA i : fs[i].parent = d)

(***************************************************************************)
(* sorted(list(it), key=lambda e: (not e.is_dir(), e.name.lower())):       *)
(* a stable sort on the key tuple (False < True, then str order).          *)
(***************************************************************************)
KeyLess(k1, k2) ==
    \/ ~k1[1] /\ k2[1]
    \/ k1[1] = k2[1] /\ StrLess(k1[2], k2[2])

\* s with x inserted after every element whose key is not greater than x's
RECURSIVE InsertByKey(_, _)
InsertByKey(s, x) ==
    IF s = <<>> THEN <<x>>
    ELSE IF KeyLess(x.key, s[1].key) THEN <<x>> \o s
    ELSE <<s[1]>> \o InsertByKey(Tail(s), x)

RECURSIVE SortByKey(_)
SortByKey(s) ==
    IF s = <<>> THEN <<>>
    ELSE InsertByKey(SortByKey(SubSeq(s, 1, Len(s) - 1)), s[Len(s)])

RECURSIVE Ids(_)
Ids(s) == IF s = <<>> THEN <<>> ELSE <<s[1].id>> \o Ids(Tail(s))

\* the key of line 40
TreeSortKey(e) == << ~is_dir(e), Lower(NodeName(e)) >>

RECURSIVE TreeKeyed(_)
TreeKeyed(listed) ==
    IF listed = <<>> THEN <<>>
    ELSE <<[id |-> listed[1], key |-> TreeSortKey(listed[1])]>>
         \o TreeKeyed(Tail(listed))

\* entries of build_tree, line 40
TreeSorted(d) == Ids(SortByKey(TreeKeyed(ScanDir(d))))

MainSortKeyCaseSensitive(e) == << ~is_dir(e), NodeName(e) >>

\* the key of line 127
MainSortKey(e) == << ~is_dir(e), Lower(NodeName(e)) >>

RECURSIVE MainKeyed(_)
MainKeyed(listed) ==
    IF listed = <<>> THEN <<>>
    ELSE <<[id |-> listed[1], key |-> MainSortKey(listed[1])]>>
         \o MainKeyed(Tail(listed))

\* entries of main, line 127
MainSorted == Ids(SortByKey(MainKeyed(ScanDir(0))))

(***************************************************************************)
(* A dict is a sequence of items in insertion order.  An item is           *)
(* [key, leaf, url, node]: a leaf holds a URL string, the others a dict.   *)
(***************************************************************************)
Leaf(k, u) == [key |-> k, leaf |-> TRUE, url |-> u, node |-> <<>>]

Sub(k, n) == [key |-> k, leaf |-> FALSE, url |-> <<>>, node |-> n]

HasKey(d, k) == \E i \in 1..Len(d) : d[i].key = k

\* d[item.key] = item's value: an existing key keeps its position
RECURSIVE DictSet(_, _)
DictSet(d, item) ==
    IF d = <<>> THEN <<item>>
    ELSE IF d[1].key = item.key THEN <<item>> \o Tail(d)
    ELSE <<d[1]>> \o DictSet(Tail(d), item)

(***************************************************************************)
(* build_tree.  The result is [out, scanned, err, exc]: the returned dict, *)
(* the directories it called os.scandir on, what it printed to stderr, and *)
(* the exception that left it ("none" when it returned).                   *)
(***************************************************************************)
\* line 47
IsHiddenNever(name) == FALSE

IsHidden(name) == StartsWithDot(name)

\* except FileNotFoundError (line 41)
Caught(outcome) == outcome = "FileNotFoundError"

\* logical_segments + [cleaned] (line 54)
ChildSegments(logical_segments, cleaned) == Append(logical_segments, cleaned)

\* if sub (line 57)
KeepAlways(sub) == TRUE

KeepSub(sub) == sub # <<>>

\* ext in IMAGE_EXTS (line 61)
AllowedExt(name) == Lower(SplitextExt(name)) \in IMAGE_EXTS

\* display_key (line 62)
DisplayKey(name) == SplitextRoot(name)

\* url (line 64)
FileUrl(base, logical_segments, name) ==
    url_join(base, Append(logical_segments, name))

Returned(o, s, e) == [out |-> o, scanned |-> s, err |-> e, exc |-> "none"]

Raised(s, e, x) == [out |-> <<>>, scanned |-> s, err |-> e, exc |-> x]

RECURSIVE build_tree(_, _, _)
RECURSIVE TreeLoop(_, _, _, _)

\* the loop of lines 45-65 over the remaining entries ents, acc being the
\* state reached so far
TreeLoop(ents, logical_segments, base, acc) ==
    IF ents = <<>> THEN acc
    ELSE
      LET entry == ents[1]
          name == NodeName(entry)
          rest == Tail(ents)
      IN  IF IsHidden(name) THEN TreeLoop(rest, logical_segments, base, acc)
          ELSE IF is_dir(entry) THEN
            LET cleaned == clean_segment(name)
                sub == build_tree(entry, ChildSegments(logical_segments, cleaned), base)
                seen == acc.scanned \cup sub.scanned
                said == acc.err \o sub.err
            IN  IF sub.exc # "none" THEN Raised(seen, said, sub.exc)
                ELSE TreeLoop(rest, logical_segments, base,
                       Returned(IF KeepSub(sub.out)
                                THEN DictSet(acc.out, Sub(cleaned, sub.out))
                                ELSE acc.out, seen, said))
          ELSE IF is_file(entry) THEN
            IF AllowedExt(name)
            THEN TreeLoop(rest, logical_segments, base,
                   Returned(DictSet(acc.out, Leaf(DisplayKey(name),
                                FileUrl(base, logical_segments, name))),
                            acc.scanned, acc.err))
            ELSE TreeLoop(rest, logical_segments, base, acc)
          ELSE TreeLoop(rest, logical_segments, base, acc)

\* fs_path is the node of the directory (0 = the root)
build_tree(fs_path, logical_segments, base) ==
    LET outcome == IF fs_path = 0 THEN root_listing ELSE fs[fs_path].listing
    IN  IF outcome = "ok"
        THEN TreeLoop(TreeSorted(fs_path), logical_segments, base,
                      Returned(<<>>, {fs_path}, <<>>))
        ELSE IF Caught(outcome)
        THEN Returned(<<>>, {fs_path}, <<"ERROR: folder not found">>)
        ELSE Raised({fs_path}, <<>>, outcome)

(***************************************************************************)
(* main.                                                                   *)
(***************************************************************************)
RootArgs == {"", "root", "nodir"}

\* os.path.isdir(root_path) (line 120)
IsDirAlways(path) == TRUE

IsDir(path) == path = "root"

\* line 129
MainIsHidden(name) == StartsWithDot(name)

\* [cleaned] (line 135)
MainSegments(cleaned) == <<cleaned>>

\* if subtree (line 138)
MainKeepSub(subtree) == subtree # <<>>

\* ext in IMAGE_EXTS (lines 141-142)
MainAllowedExt(name) == Lower(SplitextExt(name)) \in IMAGE_EXTS

\* display_key (line 143)
MainDisplayKey(name) == SplitextRoot(name)

\* url (line 144)
MainFileUrl(base, name) == url_join(base, <<name>>)

\* an uncaught exception: the interpreter prints the traceback and exits 1
Crash(said) ==
    /\ stderr' = stderr \o said \o <<"Traceback">>
    /\ exit_status' = 1
    /\ pc' = "exited"

\* lines 110-114
ParseArgs ==
    /\ pc = "start"
    /\ \E flag \in BOOLEAN, b \in BaseUrls :
          /\ only_png' = flag
          /\ base_url' = b
          /\ IMAGE_EXTS' = IF flag THEN PngOnly ELSE IMAGE_EXTS
    /\ pc' = "resolve"
    /\ UNCHANGED <<fs, root_path, root_listing, entries, idx, top, scanned,
                   stderr, stdout, outfile, exit_status,
                   p_name, p_base, p_segs, p_out>>

\* line 116: args.root or choose_folder_interactive()
ResolveRoot ==
    /\ pc = "resolve"
    /\ \E arg \in RootArgs, chosen \in RootArgs :
          root_path' = IF arg # "" THEN arg ELSE chosen
    /\ pc' = "check"
    /\ UNCHANGED <<fs, only_png, base_url, IMAGE_EXTS, root_listing, entries,
                   idx, top, scanned, stderr, stdout, outfile, exit_status,
                   p_name, p_base, p_segs, p_out>>

\* lines 117-119
FailNoRoot ==
    /\ pc = "check"
    /\ root_path = ""
    /\ stderr' = Append(stderr, "No root folder provided.")
    /\ exit_status' = 1
    /\ pc' = "exited"
    /\ UNCHANGED <<fs, only_png, base_url, IMAGE_EXTS, root_path, root_listing,
                   entries, idx, top, scanned, stdout, outfile,
                   p_name, p_base, p_segs, p_out>>

\* lines 120-122
FailNotDir ==
    /\ pc = "check"
    /\ root_path # ""
    /\ ~IsDir(root_path)
    /\ stderr' = Append(stderr, "Not a directory")
    /\ exit_status' = 1
    /\ pc' = "exited"
    /\ UNCHANGED <<fs, only_png, base_url, IMAGE_EXTS, root_path, root_listing,
                   entries, idx, top, scanned, stdout, outfile,
                   p_name, p_base, p_segs, p_out>>

\* lines 120, 125-126: the root passes the directory test and os.scandir
\* lists it, finding the filesystem as it is at that moment
ScanRoot ==
    /\ pc = "check"
    /\ root_path # ""
    /\ IsDir(root_path)
    /\ scanned' = scanned \cup {0}
    /\ root_listing' = "ok"
    /\ \E n \in 0..MaxNodes : fs' \in FileSystemsOf(n)
    /\ top' = <<>>
    /\ pc' = "sort"
    /\ UNCHANGED <<only_png, base_url, IMAGE_EXTS, root_path, entries, idx,
                   stderr, stdout, outfile, exit_status,
                   p_name, p_base, p_segs, p_out>>

\* lines 120, 125-126: the root passes the directory test and os.scandir
\* then raises (the root changed in between); nothing catches it
ScanRootRaises ==
    /\ pc = "check"
    /\ root_path # ""
    /\ IsDir(root_path)
    /\ scanned' = scanned \cup {0}
    /\ root_listing' \in Listings \ {"ok"}
    /\ Crash(<<>>)
    /\ UNCHANGED <<fs, only_png, base_url, IMAGE_EXTS, root_path, entries, idx,
                   top, stdout, outfile, p_name, p_base, p_segs, p_out>>

\* line 127
SortRoot ==
    /\ pc = "sort"
    /\ entries' = MainSorted
    /\ idx' = 1
    /\ pc' = "loop"
    /\ UNCHANGED <<fs, only_png, base_url, IMAGE_EXTS, root_path, root_listing,
                   top, scanned, stderr, stdout, outfile, exit_status,
                   p_name, p_base, p_segs, p_out>>

\* lines 128-145: one iteration of main's loop
LoopEntry ==
    /\ pc = "loop"
    /\ idx <= Len(entries)
    /\ LET entry == entries[idx]
           name == NodeName(entry)
           cleaned == clean_segment(name)
           subtree == build_tree(entry, MainSegments(cleaned), base_url)
       IN  IF MainIsHidden(name)
           THEN UNCHANGED <<top, scanned, stderr, exit_status>>
                /\ idx' = idx + 1 /\ pc' = "loop"
           ELSE IF is_dir(entry)
           THEN /\ scanned' = scanned \cup subtree.scanned
                /\ IF subtree.exc # "none"
                   THEN Crash(subtree.err) /\ UNCHANGED <<top, idx>>
                   ELSE /\ top' = IF MainKeepSub(subtree.out)
                                  THEN DictSet(top, Sub(cleaned, subtree.out))
                                  ELSE top
                        /\ stderr' = stderr \o subtree.err
                        /\ idx' = idx + 1 /\ pc' = "loop"
                        /\ UNCHANGED exit_status
           ELSE IF is_file(entry) /\ MainAllowedExt(name)
           THEN /\ top' = DictSet(top, Leaf(MainDisplayKey(name),
                                            MainFileUrl(base_url, name)))
                /\ idx' = idx + 1 /\ pc' = "loop"
                /\ UNCHANGED <<scanned, stderr, exit_status>>
           ELSE UNCHANGED <<top, scanned, stderr, exit_status>>
                /\ idx' = idx + 1 /\ pc' = "loop"
    /\ UNCHANGED <<fs, only_png, base_url, IMAGE_EXTS, root_path, root_listing,
                   entries, stdout, outfile, p_name, p_base, p_segs, p_out>>

\* lines 148-151: json.dump(top) to the output file, the success message,
\* and the normal end of the process
WriteOutput ==
    /\ pc = "loop"
    /\ idx > Len(entries)
    /\ outfile' = <<top>>
    /\ stdout' = Append(stdout, "Wrote JSON to")
    /\ exit_status' = 0
    /\ pc' = "exited"
    /\ UNCHANGED <<fs, only_png, base_url, IMAGE_EXTS, root_path, root_listing,
                   entries, idx, top, scanned, stderr,
                   p_name, p_base, p_segs, p_out>>

Idle ==
    /\ fs = <<>> /\ only_png = FALSE /\ base_url = <<>>
    /\ IMAGE_EXTS = DefaultImageExts
    /\ root_path = "" /\ root_listing = "none"
    /\ entries = <<>> /\ idx = 1 /\ top = <<>> /\ scanned = {}
    /\ stderr = <<>> /\ stdout = <<>> /\ outfile = <<>>
    /\ exit_status = "running"

Init ==
    /\ pc = "start"
    /\ Idle
    /\ p_name = <<>> /\ p_base = <<>> /\ p_segs = <<>> /\ p_out = <<>>

Next ==
    \/ ParseArgs
    \/ ResolveRoot
    \/ FailNoRoot
    \/ FailNotDir
    \/ ScanRoot
    \/ ScanRootRaises
    \/ SortRoot
    \/ LoopEntry
    \/ WriteOutput

Spec == Init /\ [][Next]_vars

(***************************************************************************)
(* The two pure string functions on every input up to the bounds.          *)
(***************************************************************************)
Strings(alphabet, n) == UNION { [1..k -> alphabet] : k \in 0..n }

NameChars == {"1", "2", "_", "a"}

BaseChars == {"h", "/"}

SegChars == {"a", "/"}

MainState == <<fs, only_png, base_url, IMAGE_EXTS, root_path, root_listing,
               entries, idx, top, scanned, stderr, stdout, outfile, exit_status>>

InitClean ==
    /\ pc = "clean"
    /\ Idle
    /\ p_name \in Strings(NameChars, MaxNameLen)
    /\ p_base = <<>> /\ p_segs = <<>> /\ p_out = <<>>

CleanStep ==
    /\ pc = "clean"
    /\ p_out' = clean_segment(p_name)
    /\ pc' = "cleaned"
    /\ UNCHANGED <<MainState, p_name, p_base, p_segs>>

SpecClean == InitClean /\ [][CleanStep]_vars

InitJoin ==
    /\ pc = "join"
    /\ Idle
    /\ p_name = <<>>
    /\ p_base \in Strings(BaseChars, MaxBaseLen)
    /\ p_segs \in Strings(Strings(SegChars, MaxSegLen), MaxSegs)
    /\ p_out = <<>>

JoinStep ==
    /\ pc = "join"
    /\ p_out' = url_join(p_base, p_segs)
    /\ pc' = "joined"
    /\ UNCHANGED <<MainState, p_name, p_base, p_segs>>

SpecJoin == InitJoin /\ [][JoinStep]_vars

(***************************************************************************)
(* Vocabulary of the properties.                                           *)
(***************************************************************************)
Nodes == 1..Len(fs)

\* every item of a dict at any depth, with the keys that lead to it
RECURSIVE ItemsOf(_, _)
ItemsOf(tree, prefix) ==
    IF tree = <<>> THEN {}
    ELSE LET it == tree[1]
             here == Append(prefix, it.key)
         IN  { [path |-> here, leaf |-> it.leaf, url |-> it.url, node |-> it.node] }
             \cup (IF it.leaf THEN {} ELSE ItemsOf(it.node, here))
             \cup ItemsOf(Tail(tree), prefix)

Front(s) == SubSeq(s, 1, Len(s) - 1)

Last(s) == s[Len(s)]

\* the entry and all the directories above it have names without a leading dot
RECURSIVE Visible(_)
Visible(e) == e = 0 \/ (~StartsWithDot(NodeName(e)) /\ Visible(fs[e].parent))

\* e lies below directory d (at any depth)
RECURSIVE Below(_, _)
Below(d, e) == e # 0 /\ (fs[e].parent = d \/ Below(d, fs[e].parent))

\* the cleaned names of the directories from the root down to directory d
RECURSIVE KeyPath(_)
KeyPath(d) == IF d = 0 THEN <<>>
              ELSE Append(KeyPath(fs[d].parent), clean_segment(NodeName(d)))

\* the non-hidden directories reached from the root through non-hidden
\* directories whose cleaned names are keys, in order
ReachedBy(keys) == { d \in Nodes \cup {0} :
                        d # 0 => is_dir(d) /\ Visible(d) /\ KeyPath(d) = keys }

\* a file the traversal is to emit: a regular file in no hidden directory,
\* not hidden itself, whose lowercased extension is in the allow-list
ImageFile(f) ==
    /\ is_file(f)
    /\ Visible(f)
    /\ Lower(SplitextExt(NodeName(f))) \in IMAGE_EXTS

HasImage(d) == \E f \in Nodes : ImageFile(f) /\ Below(d, f)

\* "/" and the percent-encoding of each component, empty ones included
RECURSIVE PathOf(_)
PathOf(comps) ==
    IF comps = <<>> THEN <<>>
    ELSE <<"/">> \o quote(comps[1]) \o PathOf(Tail(comps))

Finished == pc = "exited" /\ exit_status = 0

(***************************************************************************)
(* C1: every leaf of the tree, reached through the directory keys k1..kn   *)
(* for a file named f, holds the base URL without its trailing slashes     *)
(* followed by exactly n+1 path components: the percent-encodings of       *)
(* k1, ..., kn and of f.                                                   *)
(***************************************************************************)
C1_LeafUrlHasEveryKey ==
    \A it \in ItemsOf(top, <<>>) :
        it.leaf =>
            \E f \in Nodes :
                /\ is_file(f)
                /\ SplitextRoot(NodeName(f)) = Last(it.path)
                /\ it.url = RStripSlash(base_url)
                              \o PathOf(Append(Front(it.path), NodeName(f)))

(***************************************************************************)
(* C2: no key of the tree, at any depth, maps to an empty mapping, and     *)
(* every key that maps to a mapping comes from a non-hidden directory that *)
(* holds, at some depth, a file the traversal emits: a directory without   *)
(* any contributes no key.                                                 *)
(***************************************************************************)
C2_NoEmptyDirectoryKey ==
    \A it \in ItemsOf(top, <<>>) :
        ~it.leaf =>
            /\ it.node # <<>>
            /\ \E d \in ReachedBy(it.path) : d # 0 /\ HasImage(d)

\* the run ended normally on a root holding a non-hidden directory without
\* images, next to something that was emitted
C2_Witness ==
    /\ Finished
    /\ top # <<>>
    /\ \E d \in Nodes :
          /\ is_dir(d) /\ Visible(d) /\ fs[d].parent = 0 /\ fs[d].listing = "ok"
          /\ ~HasImage(d)
          /\ ~HasKey(top, clean_segment(NodeName(d)))

(***************************************************************************)
(* C3: hidden entries never appear as keys and nothing beneath a hidden    *)
(* directory is visited: every directory listed is non-hidden and below    *)
(* non-hidden directories only, and every key of the tree is the key of a  *)
(* non-hidden entry of a directory so reached.                             *)
(***************************************************************************)
C3_HiddenEntriesNeverAppear ==
    /\ \A d \in scanned : Visible(d)
    /\ \A it \in ItemsOf(top, <<>>) :
          \E d \in ReachedBy(Front(it.path)), e \in Nodes :
              /\ fs[e].parent = d
              /\ ~StartsWithDot(NodeName(e))
              /\ IF it.leaf
                 THEN is_file(e) /\ SplitextRoot(NodeName(e)) = Last(it.path)
                 ELSE is_dir(e) /\ clean_segment(NodeName(e)) = Last(it.path)

\* the run ended normally on a root holding a hidden image file and a
\* hidden directory with an image in it
C3_Witness ==
    /\ Finished
    /\ \E h \in Nodes :
          /\ is_file(h) /\ StartsWithDot(NodeName(h)) /\ fs[h].parent = 0
          /\ Lower(SplitextExt(NodeName(h))) \in IMAGE_EXTS
    /\ \E d, f \in Nodes :
          /\ is_dir(d) /\ StartsWithDot(NodeName(d)) /\ fs[d].parent = 0
          /\ is_file(f) /\ fs[f].parent = d
          /\ Lower(SplitextExt(NodeName(f))) \in IMAGE_EXTS

(***************************************************************************)
(* C4: whatever the listing failure of a directory reached during the      *)
(* traversal, the run goes on: once the root has been listed, the process  *)
(* ends with the output file written and exit status zero.                 *)
(***************************************************************************)
C4_ListingFailureIsRecovered ==
    (pc = "exited" /\ root_listing = "ok") =>
        (exit_status = 0 /\ outfile = <<top>>)

(***************************************************************************)
(* C5: at the end of a run, a non-hidden file of a directory the traversal *)
(* lists is recorded in that directory's node (key: the file name without  *)
(* its extension, value: its URL) if and only if its lowercased extension  *)
(* is in the allow-list.                                                   *)
(***************************************************************************)
C5_RecordedIffAllowed ==
    Finished =>
        \A f \in Nodes :
            (is_file(f) /\ Visible(f)) =>
                ( [path |-> Append(KeyPath(fs[f].parent), SplitextRoot(NodeName(f))),
                   leaf |-> TRUE,
                   url  |-> url_join(base_url,
                                     Append(KeyPath(fs[f].parent), NodeName(f))),
                   node |-> <<>>] \in ItemsOf(top, <<>>)
                  <=> Lower(SplitextExt(NodeName(f))) \in IMAGE_EXTS )

Trimmed(base) ==
    LET k == CHOOSE k \in 0..Len(base) :
                 /\ k > 0 => base[k] # "/"
                 /\ \A i \in (k + 1)..Len(base) : base[i] = "/"
    IN  SubSeq(base, 1, k)

\* s.split("/")
RECURSIVE SplitSlash(_)
SplitSlash(s) ==
    IF \A i \in 1..Len(s) : s[i] # "/" THEN <<s>>
    ELSE LET at == CHOOSE i \in 1..Len(s) :
                       s[i] = "/" /\ \A j \in 1..(i - 1) : s[j] # "/"
         IN  <<SubSeq(s, 1, at - 1)>> \o SplitSlash(SubSeq(s, at + 1, Len(s)))

Reserved == {" ", "#", "%", "/", ":"}

\* every "%" of s starts the escape of a reserved character
RECURSIVE WellEncoded(_)
WellEncoded(s) ==
    IF s = <<>> THEN TRUE
    ELSE IF s[1] = "%"
    THEN /\ Len(s) >= 3
         /\ \E c \in Reserved : Escape(c) = SubSeq(s, 1, 3)
         /\ WellEncoded(SubSeq(s, 4, Len(s)))
    ELSE s[1] \in Unreserved /\ WellEncoded(Tail(s))

\* urllib.parse.unquote on a well-encoded string
RECURSIVE Unquote(_)
Unquote(s) ==
    IF s = <<>> THEN <<>>
    ELSE IF s[1] = "%"
    THEN <<CHOOSE c \in Reserved : Escape(c) = SubSeq(s, 1, 3)>>
         \o Unquote(SubSeq(s, 4, Len(s)))
    ELSE <<s[1]>> \o Unquote(Tail(s))

C7_UrlJoinEncodesEachSegment ==
    pc = "joined" =>
        LET t == Trimmed(p_base)
            given == SelectSeq(p_segs, LAMBDA seg : seg # <<>>)
            rest == SubSeq(p_out, Len(t) + 1, Len(p_out))
            parts == Tail(SplitSlash(rest))
        IN  /\ Len(p_out) >= Len(t)
            /\ SubSeq(p_out, 1, Len(t)) = t
            /\ given = <<>> => p_out = t
            /\ given # <<>> => rest[1] = "/"
            /\ Cardinality({ i \in 1..Len(rest) : rest[i] = "/" }) = Len(given)
            /\ Len(parts) = Len(given)
            /\ \A i \in 1..Len(parts) :
                  WellEncoded(parts[i]) /\ Unquote(parts[i]) = given[i]

\* "h/" joined with an empty segment and "a/": the empty one is dropped and
\* the slash of the other is escaped
C7_Witness ==
    /\ pc = "joined"
    /\ p_base = <<"h", "/">>
    /\ p_segs = << <<>>, <<"a", "/">> >>
    /\ p_out = <<"h", "/", "a", "%", "2", "F">>

(***************************************************************************)
(* C8: both fatal conditions (no root obtained; the root is no directory)  *)
(* are detected before anything is listed: the process prints a diagnostic *)
(* to stderr and exits non-zero, and no directory is ever listed nor the   *)
(* output file written.                                                    *)
(***************************************************************************)
C8_FatalBeforeTraversal ==
    /\ root_path # "root" => (scanned = {} /\ outfile = <<>> /\ stdout = <<>>)
    /\ (pc = "exited" /\ root_path # "root") =>
          /\ exit_status = 1
          /\ stderr \in { <<"No root folder provided.">>, <<"Not a directory">> }
          /\ (root_path = "") = (stderr = <<"No root folder provided.">>)

\* the process has exited on a root that is not a directory
C8_Witness ==
    /\ pc = "exited"
    /\ root_path = "nodir"
    /\ exit_status = 1
    /\ stderr = <<"Not a directory">>

(***************************************************************************)
(* C9: for a root that can be listed, the tree main assembles (keys,       *)
(* values and key order) is the one build_tree returns for the root with   *)
(* an empty segment list, and main ends normally exactly when build_tree   *)
(* returns.                                                                *)
(***************************************************************************)
C9_MainEqualsBuildTree ==
    (pc = "exited" /\ root_listing = "ok") =>
        LET whole == build_tree(0, <<>>, base_url)
        IN  /\ (exit_status = 0) = (whole.exc = "none")
            /\ exit_status = 0 => (top = whole.out /\ outfile = <<whole.out>>)

\* the run ended normally with the key of a directory, which holds a leaf,
\* before the key of a top-level file
C9_Witness ==
    /\ Finished
    /\ Len(top) >= 2
    /\ ~top[1].leaf
    /\ top[1].node[1].leaf
    /\ top[2].leaf

(***************************************************************************)
(* C10: no emitted entry is lost by key collision: at the end of a run     *)
(* every image file reachable from the root through non-hidden directories *)
(* has its own leaf in the output, and distinct files have distinct URLs.  *)
(***************************************************************************)
C10_NoEntryLost ==
    Finished =>
        LET leaves == { it \in ItemsOf(top, <<>>) : it.leaf }
            images == { f \in Nodes : ImageFile(f) }
        IN  /\ Cardinality(leaves) = Cardinality(images)
            /\ Cardinality({ it.url : it \in leaves }) = Cardinality(images)

====
